---------------------------- MODULE Spec2Model ----------------------------
(***************************************************************************)
(* A model of DataValidator (src/src/data_preparation/data_validation.py): *)
(* schema validation, data-quality profiling and scoring, business rules   *)
(* and drift detection.  Every method is one action that applies the       *)
(* method, written as an operator that follows the code statement by       *)
(* statement, to the arguments held in the state and stores what the call  *)
(* returned or raised.                                                     *)
(*                                                                         *)
(* Numbers.  Python floats are modelled by exact rationals plus NaN.  The  *)
(* percentages of the quality report are rounded to two decimals as the    *)
(* code rounds them.  A standard deviation is kept as the square root of   *)
(* its (rational) variance.                                                *)
(*                                                                         *)
(* Datasets.  A pandas DataFrame is a sequence of column names, a dtype    *)
(* per column and a sequence of rows; a cell is <<v>> when it holds the    *)
(* value v and <<>> when it is missing (NaN / None / NaT).  Values are      *)
(* integers: a number stands for itself, a timestamp for its instant and   *)
(* a string for its rank among the strings of its column in sorted order.  *)
(***************************************************************************)
EXTENDS Integers, Sequences, FiniteSets, TLC

VARIABLES
    validation_results,   \* the two fields of the DataValidator the methods
    quality_metrics,      \* are called on
    df,                   \* the DataFrame passed to the one-dataset methods
    expected_schema,      \* the expected_schema argument of validate_data_schema
    clock,                \* the wall clock that datetime.now() reads
    quality_report,       \* outcome of the last check_data_quality(df)
    prev_quality_report,  \* outcome for df before the caller appended a row
    schema_result,        \* outcome of the last validate_data_schema
    current_time,         \* what datetime.now() gave the last validate_business_rules
    rules_result,         \* outcome of the last validate_business_rules(df)
    prev_rules_result,    \* outcome of the validate_business_rules(df) before it
    reference_df,         \* the arguments of detect_data_drift
    current_df,
    numerical_threshold,
    categorical_threshold,
    drift_report,         \* outcome of the last detect_data_drift
    project_validation_results,  \* ProjectValidator.validation_results
    validate_all_calls,   \* number of validate_all calls on that validator
    s3_objects,           \* the keys of the raw data present in the bucket
    pipeline_pc,          \* where run_data_preparation stands
    pipeline_steps,       \* the steps run_data_preparation has started
    pipeline_data,        \* customer_data, product_data, transaction_data
    pipeline_validation_results, \* EcommerceMLPipeline.validation_results
    pipeline_outcome      \* how run_data_preparation ended

schemaVars == <<expected_schema, schema_result>>

qualityVars == <<quality_report, prev_quality_report>>

rulesVars == <<clock, current_time, rules_result, prev_rules_result>>

driftVars == <<reference_df, current_df, numerical_threshold,
               categorical_threshold, drift_report>>

validatorVars == <<validation_results, quality_metrics>>

projectVars == <<project_validation_results, validate_all_calls>>

pipelineVars == <<s3_objects, pipeline_pc, pipeline_steps, pipeline_data,
                  pipeline_validation_results, pipeline_outcome>>

vars == <<validatorVars, df, schemaVars, qualityVars, rulesVars, driftVars,
          projectVars, pipelineVars>>

---------------------------------------------------------------------------
(* Bounds of the model *)

MaxRows == 5

MaxRuleRows == 4

MaxClock == 3

MaxDriftRows == 2

\* the largest number of rows of the datasets around the means 50 and 65
MaxScoreRows == 3

\* the largest number of rows of the datasets given to a shared validator
MaxSharedRows == 2

---------------------------------------------------------------------------
(* Exact arithmetic standing for Python floats *)

Abs(x) == IF x < 0 THEN -x ELSE x

RECURSIVE GCD(_, _)
GCD(a, b) == IF b = 0 THEN a ELSE GCD(b, a % b)

LCM(a, b) == (a \div GCD(a, b)) * b

\* the float n/d, d # 0, in lowest terms
Rat(n, d) ==
    LET g == GCD(Abs(n), Abs(d))
        s == IF d < 0 THEN -1 ELSE 1
    IN [nan |-> FALSE, num |-> s * (n \div g), den |-> s * (d \div g)]

NaN == [nan |-> TRUE, num |-> 0, den |-> 1]

IsNaN(x) == x.nan

FAdd(x, y) ==
    IF x.nan \/ y.nan THEN NaN
    ELSE LET l == LCM(x.den, y.den)
         IN Rat(x.num * (l \div x.den) + y.num * (l \div y.den), l)

FNeg(x) == IF x.nan THEN NaN ELSE [x EXCEPT !.num = -x.num]

FSub(x, y) == FAdd(x, FNeg(y))

\* x * (n/d) for integers n, d, d > 0
FScale(x, n, d) ==
    IF x.nan THEN NaN
    ELSE LET g1 == GCD(Abs(x.num), d)
             g2 == GCD(Abs(n), x.den)
         IN Rat((x.num \div g1) * (n \div g2), (x.den \div g2) * (d \div g1))

\* x < y as Python evaluates it: False when either side is NaN
FLt(x, y) ==
    /\ ~x.nan
    /\ ~y.nan
    /\ LET l == LCM(x.den, y.den)
       IN x.num * (l \div x.den) < y.num * (l \div y.den)

FLe(x, y) == ~x.nan /\ ~y.nan /\ ~FLt(y, x)

\* Python's min(x, y) and max(x, y): the first argument is kept unless the
\* second compares strictly smaller (larger), so a NaN first argument stays
PyMin(x, y) == IF FLt(y, x) THEN y ELSE x

PyMax(x, y) == IF FLt(x, y) THEN y ELSE x

\* round(n/d) to an integer, ties to even (Python's round), n >= 0, d > 0
RoundHalfEven(n, d) ==
    LET q == n \div d
        r == n % d
    IN IF 2 * r < d THEN q
       ELSE IF 2 * r > d THEN q + 1
       ELSE IF q % 2 = 0 THEN q ELSE q + 1

\* round((count / total) * 100, 2) for integers count >= 0, total > 0
RoundPct(count, total) == Rat(RoundHalfEven(count * 10000, total), 100)

---------------------------------------------------------------------------
(* DataFrames *)

Range(s) == {s[i] : i \in DOMAIN s}

IsNull(cell) == cell = <<>>

\* the dtypes that select_dtypes(include=[np.number]) selects
NpNumber == {"int64", "float64", "int32", "uint64"}

\* the rows whose cell of column col is not missing
NonNull(frame, col) ==
    {i \in DOMAIN frame.rows : ~IsNull(frame.rows[i][col])}

\* the rows of a layout: one cell per column, drawn from the column's values
RowsOf(layout) ==
    {r \in [Range(layout.columns) -> UNION {layout.cells[c] : c \in Range(layout.columns)}] :
        \A c \in Range(layout.columns) : r[c] \in layout.cells[c]}

\* all DataFrames of a layout (column names, dtypes and the cells a column
\* may hold) with at most maxRows rows
FramesOf(layout, maxRows) ==
    {[columns |-> layout.columns, dtypes |-> layout.dtypes, rows |-> r] :
        r \in UNION {[1..n -> RowsOf(layout)] : n \in 0..maxRows}}

\* len(df)
NRows(frame) == Len(frame.rows)

\* the dtype pd.DataFrame gives a column built from a list of Python values
\* of one kind
InferDtype(kind) ==
    CASE kind = "int" -> "int64"
      [] kind = "float" -> "float64"
      [] kind = "bool" -> "bool"
      [] OTHER -> "object"

\* pd.DataFrame(data) for a dict of equally long lists, each with the kind
\* of its values
DataFrameOf(names, data) ==
    [columns |-> names,
     dtypes |-> [c \in Range(names) |-> InferDtype(data[c].kind)],
     rows |-> [i \in 1..Len(data[names[1]].values) |->
                 [c \in Range(names) |-> <<data[c].values[i]>>]]]

\* the sample_data of the tests; a string is given by its rank among the
\* strings of its column
sample_data ==
    DataFrameOf(<<"customer_id", "age", "income", "gender">>,
                [customer_id |-> [kind |-> "str", values |-> <<1, 2, 3>>],
                 age |-> [kind |-> "int", values |-> <<25, 35, 45>>],
                 income |-> [kind |-> "int",
                             values |-> <<50000, 60000, 70000>>],
                 gender |-> [kind |-> "str", values |-> <<2, 1, 2>>]])

\* the schema of test_data_validation
test_schema ==
    [customer_id |-> "string", age |-> "int", income |-> "float",
     gender |-> "string"]

\* Python's None passed where a DataFrame is expected
None == [none |-> TRUE]

\* what a call left behind: nothing yet, the value returned, the exception raised
NotCalled == [status |-> "not called", value |-> <<>>, error |-> "none"]

Returned(v) == [status |-> "returned", value |-> v, error |-> "none"]

Raised(e) == [status |-> "raised", value |-> <<>>, error |-> e]

\* the values of the variables of a method that a run never calls
NoSchema == <<>>

NoFrame == [columns |-> <<>>, dtypes |-> <<>>, rows |-> <<>>]

\* DataValidator(): both fields are empty dicts
ValidatorFresh == validation_results = <<>> /\ quality_metrics = <<>>

\* a field of the validator after a call that produced the given outcome:
\* no method assigns to self.validation_results or self.quality_metrics
FieldAfterCall_StoresOutcome(field, outcome) == outcome

FieldAfterCall(field, outcome) == field

\* a dataset argument after a call: no method assigns to its argument, to
\* a column or to a cell of it
InputAfterCall_DropsMissing(frame) ==
    LET Complete(row) == \A c \in DOMAIN row : row[c] # <<>>
    IN [frame EXCEPT !.rows = SelectSeq(frame.rows, Complete)]

InputAfterCall(frame) == frame

\* a ProjectValidator on which validate_all is never called
ProjectIdle == project_validation_results = <<>> /\ validate_all_calls = 0

\* a pipeline whose run_data_preparation is never called
PipelineIdle ==
    /\ s3_objects = {}
    /\ pipeline_pc = "idle"
    /\ pipeline_steps = <<>>
    /\ pipeline_data = <<>>
    /\ pipeline_validation_results = <<>>
    /\ pipeline_outcome = NotCalled

SchemaIdle == expected_schema = NoSchema /\ schema_result = NotCalled

QualityIdle == quality_report = NotCalled /\ prev_quality_report = NotCalled

RulesIdle ==
    /\ clock = 0
    /\ current_time = 0
    /\ rules_result = NotCalled
    /\ prev_rules_result = NotCalled

DriftIdle ==
    /\ reference_df = NoFrame
    /\ current_df = NoFrame
    /\ numerical_threshold = Rat(1, 10)
    /\ categorical_threshold = Rat(1, 10)
    /\ drift_report = NotCalled

---------------------------------------------------------------------------
(* Column statistics as pandas computes them: missing cells are skipped *)

\* df[col].isnull().sum()
MissingCount(frame, col) ==
    Cardinality({i \in DOMAIN frame.rows : IsNull(frame.rows[i][col])})

\* a duplicate count that looks only at the row just before
DuplicatedCount_Adjacent(frame) ==
    IF frame.columns = <<>> THEN 0
    ELSE Cardinality({i \in DOMAIN frame.rows :
                        i > 1 /\ frame.rows[i - 1] = frame.rows[i]})

\* df.duplicated().sum(): the rows equal to an earlier row (missing cells
\* compare equal to each other); an empty frame has none
DuplicatedCount(frame) ==
    IF frame.columns = <<>> THEN 0
    ELSE Cardinality({i \in DOMAIN frame.rows :
                        \E j \in 1..(i - 1) : frame.rows[j] = frame.rows[i]})

\* the k-th smallest value (k = 1 is the minimum) of the non-missing cells
Kth(frame, col, k) ==
    LET I == NonNull(frame, col)
        V == {frame.rows[i][col][1] : i \in I}
    IN CHOOSE v \in V :
         /\ Cardinality({i \in I : frame.rows[i][col][1] < v}) < k
         /\ k <= Cardinality({i \in I : frame.rows[i][col][1] <= v})

\* df[col].quantile(quarters / 4), linear interpolation between the closest
\* ranks of the non-missing values; NaN when there is none
Quantile(frame, col, quarters) ==
    LET m == Cardinality(NonNull(frame, col))
        pos4 == quarters * (m - 1)
        lo == pos4 \div 4
        frac4 == pos4 % 4
    IN IF m = 0 THEN NaN
       ELSE IF frac4 = 0 THEN Rat(Kth(frame, col, lo + 1), 1)
       ELSE Rat(Kth(frame, col, lo + 1) * (4 - frac4)
                  + Kth(frame, col, lo + 2) * frac4, 4)

RECURSIVE SumInt(_, _)
SumInt(f, S) ==
    IF S = {} THEN 0
    ELSE LET c == CHOOSE c \in S : TRUE IN f[c] + SumInt(f, S \ {c})

RECURSIVE SumFloat(_, _)
SumFloat(f, S) ==
    IF S = {} THEN Rat(0, 1)
    ELSE LET c == CHOOSE c \in S : TRUE IN FAdd(f[c], SumFloat(f, S \ {c}))

\* df[col].mean()
Mean(frame, col) ==
    LET I == NonNull(frame, col)
    IN IF I = {} THEN NaN
       ELSE Rat(SumInt([i \in I |-> frame.rows[i][col][1]], I), Cardinality(I))

\* the greatest common divisor of the absolute values f[c], c in S (0 when
\* all are 0)
RECURSIVE GcdOf(_, _)
GcdOf(f, S) ==
    IF S = {} THEN 0
    ELSE LET c == CHOOSE c \in S : TRUE IN GCD(Abs(f[c]), GcdOf(f, S \ {c}))

\* the square of df[col].std(): the sample variance (N - 1 denominator),
\* NaN for fewer than two non-missing values.  The values are divided by
\* their common divisor g first, which keeps the sums small: the variance is
\* g^2 times the variance of the quotients.
Variance(frame, col) ==
    LET I == NonNull(frame, col)
        m == Cardinality(I)
        d == GcdOf([i \in I |-> frame.rows[i][col][1]], I)
        g == IF d = 0 THEN 1 ELSE d
        u == [i \in I |-> frame.rows[i][col][1] \div g]
        s == SumInt(u, I)
        \* sum of (m*u - s)^2 = m^2 * sum of (u - mean)^2
        ss == SumInt([i \in I |-> (m * u[i] - s) * (m * u[i] - s)], I)
    IN IF m < 2 THEN NaN ELSE FScale(Rat(ss, m * m * (m - 1)), g * g, 1)

---------------------------------------------------------------------------
(* check_data_quality and _calculate_quality_score *)

\* the entry of missing_value_summary for one column; the count is a numpy
\* integer, so a division by len(df) = 0 gives NaN and raises nothing
MissingEntry(frame, col) ==
    LET missing_count == MissingCount(frame, col)
    IN [count |-> missing_count,
        percentage |-> IF NRows(frame) = 0 THEN NaN
                       ELSE RoundPct(missing_count, NRows(frame))]

\* a variant of OutlierCount whose fences are inclusive: a value equal to
\* a bound counts as an outlier
OutlierCount_Inclusive(frame, col) ==
    LET Q1 == Quantile(frame, col, 1)
        Q3 == Quantile(frame, col, 3)
        IQR == FSub(Q3, Q1)
        lower_bound == FSub(Q1, FScale(IQR, 3, 2))
        upper_bound == FAdd(Q3, FScale(IQR, 3, 2))
    IN Cardinality({i \in NonNull(frame, col) :
                      \/ FLe(Rat(frame.rows[i][col][1], 1), lower_bound)
                      \/ FLe(upper_bound, Rat(frame.rows[i][col][1], 1))})

\* len(outliers): the rows whose value lies strictly below
\* Q1 - 1.5 * IQR or strictly above Q3 + 1.5 * IQR; a comparison with a
\* missing value or with a NaN bound is False
OutlierCount(frame, col) ==
    LET Q1 == Quantile(frame, col, 1)
        Q3 == Quantile(frame, col, 3)
        IQR == FSub(Q3, Q1)
        lower_bound == FSub(Q1, FScale(IQR, 3, 2))
        upper_bound == FAdd(Q3, FScale(IQR, 3, 2))
    IN Cardinality({i \in NonNull(frame, col) :
                      \/ FLt(Rat(frame.rows[i][col][1], 1), lower_bound)
                      \/ FLt(upper_bound, Rat(frame.rows[i][col][1], 1))})

\* a variant of OutlierEntry whose percentage is relative to the number of
\* non-missing values: 0 / 0 = NaN for a column without a value
OutlierEntry_OfNonMissing(frame, col) ==
    LET count == OutlierCount(frame, col)
        present == Cardinality(NonNull(frame, col))
    IN [count |-> count,
        percentage |-> IF present = 0 THEN NaN ELSE RoundPct(count, present)]

\* the entry of outlier_summary for one numerical column, len(df) > 0
OutlierEntry(frame, col) ==
    LET count == OutlierCount(frame, col)
    IN [count |-> count, percentage |-> RoundPct(count, NRows(frame))]

\* df[col].mode().iloc[0] if len(df[col].mode()) > 0 else None: the most
\* frequent non-missing value, the smallest one among equally frequent ones
MostCommon(frame, col) ==
    LET I == NonNull(frame, col)
        V == {frame.rows[i][col][1] : i \in I}
        Freq(v) == Cardinality({i \in I : frame.rows[i][col][1] = v})
        Modes == {v \in V : \A w \in V : Freq(w) <= Freq(v)}
    IN IF V = {} THEN <<>>
       ELSE <<CHOOSE v \in Modes : \A w \in Modes : v <= w>>

\* df[col].median()
Median(frame, col) == Quantile(frame, col, 2)

\* the entry of data_distribution for one column; a None field is <<>> and
\* 'std' is given by its square
DistributionEntry(frame, col) ==
    LET all_null == NonNull(frame, col) = {}
        m == Cardinality(NonNull(frame, col))
    IN IF frame.dtypes[col] \in {"int64", "float64"}
       THEN [mean |-> IF all_null THEN <<>> ELSE <<Mean(frame, col)>>,
             median |-> IF all_null THEN <<>> ELSE <<Median(frame, col)>>,
             std_squared |-> IF all_null THEN <<>> ELSE <<Variance(frame, col)>>,
             min |-> IF all_null THEN <<>> ELSE <<Kth(frame, col, 1)>>,
             max |-> IF all_null THEN <<>> ELSE <<Kth(frame, col, m)>>]
       ELSE [unique_values |->
                 Cardinality({frame.rows[i][col] : i \in NonNull(frame, col)}),
             most_common |-> MostCommon(frame, col)]

\* the mean of the per-column missing percentages, len(summary) > 0
TotalMissingPercentage(report) ==
    LET summary == report.missing_value_summary
        cols == DOMAIN summary
    IN FScale(SumFloat([c \in cols |-> summary[c].percentage], cols),
              1, Cardinality(cols))

\* a variant of TotalOutlierPercentage that divides by the number of all
\* columns of the dataset
TotalOutlierPercentage_OverAllColumns(report) ==
    LET summary == report.outlier_summary
        cols == DOMAIN summary
    IN FScale(SumFloat([c \in cols |-> summary[c].percentage], cols),
              1, report.total_columns)

\* the mean of the per-column outlier percentages, 0 when there is no column
TotalOutlierPercentage(report) ==
    LET summary == report.outlier_summary
        cols == DOMAIN summary
    IN FScale(SumFloat([c \in cols |-> summary[c].percentage], cols),
              1, IF Cardinality(cols) > 1 THEN Cardinality(cols) ELSE 1)

\* a variant of MissingDeduction without the cap at 30
MissingDeduction_Uncapped(report) ==
    FScale(TotalMissingPercentage(report), 1, 2)

MissingDeduction(report) ==
    PyMin(FScale(TotalMissingPercentage(report), 1, 2), Rat(30, 1))

DuplicateDeduction(report) ==
    PyMin(FScale(Rat(report.duplicate_rows * 100,
                     report.total_rows), 3, 10), Rat(20, 1))

OutlierDeduction(report) ==
    PyMin(FScale(TotalOutlierPercentage(report), 1, 5), Rat(15, 1))

\* _calculate_quality_score: the score, or the ZeroDivisionError of
\* sum([]) / 0 when the report has no column
_calculate_quality_score(report) ==
    IF DOMAIN report.missing_value_summary = {}
    THEN Raised("ZeroDivisionError")
    ELSE LET s0 == Rat(100, 1)
             s1 == FSub(s0, MissingDeduction(report))
             s2 == IF report.total_rows > 0
                   THEN FSub(s1, DuplicateDeduction(report))
                   ELSE s1
             s3 == FSub(s2, OutlierDeduction(report))
         IN Returned(PyMax(s3, Rat(0, 1)))

\* check_data_quality(df): the report, or the exception the call ends with.
\* With no row, len(outliers) / len(df) is a division of Python integers and
\* raises ZeroDivisionError at the first numerical column.
check_data_quality(frame) ==
    LET cols == Range(frame.columns)
        numerical_cols == {c \in cols : frame.dtypes[c] \in NpNumber}
        rep ==
            [total_rows |-> NRows(frame),
             total_columns |-> Len(frame.columns),
             missing_value_summary |-> [c \in cols |-> MissingEntry(frame, c)],
             duplicate_rows |-> DuplicatedCount(frame),
             outlier_summary |-> [c \in numerical_cols |-> OutlierEntry(frame, c)],
             data_distribution |-> [c \in cols |-> DistributionEntry(frame, c)],
             quality_score |-> Rat(0, 1)]
        score == _calculate_quality_score(rep)
    IN IF NRows(frame) = 0 /\ numerical_cols # {}
       THEN Raised("ZeroDivisionError")
       ELSE IF score.status = "raised" THEN score
       ELSE Returned([rep EXCEPT !.quality_score = score.value])

---------------------------------------------------------------------------
(* The profiling of one dataset *)

\* the column layouts of the datasets that are profiled
QualityLayouts ==
    {[columns |-> <<>>, dtypes |-> <<>>, cells |-> <<>>],
     [columns |-> <<"income">>,
      dtypes |-> [c \in {"income"} |-> "float64"],
      cells |-> [c \in {"income"} |-> {<<>>, <<1>>, <<2>>, <<3>>}]],
     [columns |-> <<"age">>,
      dtypes |-> [c \in {"age"} |-> "int64"],
      cells |-> [c \in {"age"} |-> {<<1>>, <<2>>}]],
     [columns |-> <<"x">>,
      dtypes |-> [c \in {"x"} |-> "int64"],
      cells |-> [c \in {"x"} |-> {<<1>>, <<2>>, <<3>>, <<4>>, <<100>>}]],
     [columns |-> <<"gender">>,
      dtypes |-> [c \in {"gender"} |-> "object"],
      cells |-> [c \in {"gender"} |-> {<<>>, <<1>>, <<2>>}]],
     [columns |-> <<"income", "gender">>,
      dtypes |-> [c \in {"income", "gender"} |->
                    IF c = "income" THEN "float64" ELSE "object"],
      cells |-> [c \in {"income", "gender"} |->
                    IF c = "income" THEN {<<>>, <<1>>} ELSE {<<>>, <<1>>}]]}

InitQuality ==
    /\ ValidatorFresh
    /\ ProjectIdle
    /\ PipelineIdle
    /\ \/ \E l \in QualityLayouts : df \in FramesOf(l, MaxRows)
       \/ df = sample_data
    /\ QualityIdle
    /\ SchemaIdle
    /\ RulesIdle
    /\ DriftIdle

\* a call of check_data_quality(df)
CheckDataQuality ==
    /\ quality_report' = check_data_quality(df)
    /\ df' = InputAfterCall(df)
    /\ validation_results' =
           FieldAfterCall(validation_results, check_data_quality(df))
    /\ quality_metrics' =
           FieldAfterCall(quality_metrics, check_data_quality(df))
    /\ UNCHANGED <<prev_quality_report, schemaVars, rulesVars, driftVars>>
    /\ UNCHANGED <<projectVars, pipelineVars>>

\* the caller appends a copy of row i to the dataset it has profiled and
\* keeps the report of the dataset as it was
AppendDuplicateRow(i) ==
    /\ quality_report.status # "not called"
    /\ NRows(df) < MaxRows
    /\ df' = [df EXCEPT !.rows = Append(df.rows, df.rows[i])]
    /\ prev_quality_report' = quality_report
    /\ quality_report' = NotCalled
    /\ UNCHANGED <<validatorVars, schemaVars, rulesVars, driftVars>>
    /\ UNCHANGED <<projectVars, pipelineVars>>

NextQuality ==
    \/ CheckDataQuality
    \/ \E i \in DOMAIN df.rows : AppendDuplicateRow(i)

SpecQuality == InitQuality /\ [][NextQuality]_vars

\* no cell of the dataset is missing
NoMissing(frame) ==
    \A c \in Range(frame.columns) : MissingCount(frame, c) = 0

\* no numerical column of the dataset has an IQR outlier
NoOutlier(frame) ==
    \A c \in Range(frame.columns) :
        frame.dtypes[c] \in NpNumber => OutlierCount(frame, c) = 0

\* the dataset without its last row
ButLast(frame) ==
    [frame EXCEPT !.rows = SubSeq(frame.rows, 1, NRows(frame) - 1)]

ScoreInRange(x) == FLe(Rat(0, 1), x) /\ FLe(x, Rat(100, 1))

\* C1: for every dataset with at least one column (any number of rows,
\* zero included) check_data_quality returns a quality_score q that is a
\* number with 0 <= q <= 100.
C1_ScoreBounded ==
    (quality_report.status # "not called" /\ df.columns # <<>>)
        => /\ quality_report.status = "returned"
           /\ ScoreInRange(quality_report.value.quality_score)

\* C1 on the datasets with at least one row: the score is in [0, 100]
C1_ScoreBoundedWithRows ==
    (quality_report.status # "not called" /\ df.columns # <<>> /\ NRows(df) > 0)
        => /\ quality_report.status = "returned"
           /\ ScoreInRange(quality_report.value.quality_score)

\* C2: appending a copy of a row of D to D never increases the
\* quality_score (prev_quality_report is the report of D, quality_report
\* the report of D with the copy appended).
C2_DuplicateNeverIncreases ==
    (prev_quality_report.status = "returned" /\ quality_report.status = "returned")
        => FLe(quality_report.value.quality_score,
               prev_quality_report.value.quality_score)

\* C2 as amended: when D has no missing value and no IQR outlier in any
\* numerical column, appending a copy of a row of D to D never increases
\* the quality_score.
C2_DuplicateNeverIncreasesCleanData ==
    (/\ prev_quality_report.status = "returned"
     /\ quality_report.status = "returned"
     /\ NoMissing(ButLast(df))
     /\ NoOutlier(ButLast(df)))
        => FLe(quality_report.value.quality_score,
               prev_quality_report.value.quality_score)

\* a clean dataset was profiled before and after a copy of one of its rows
\* was appended, and the score went down
C2_Witness ==
    /\ prev_quality_report.status = "returned"
    /\ quality_report.status = "returned"
    /\ NoMissing(ButLast(df))
    /\ NoOutlier(ButLast(df))
    /\ FLt(quality_report.value.quality_score,
           prev_quality_report.value.quality_score)

\* C3: a dataset (of at least one column) with no missing value, no
\* duplicate row and no IQR outlier in any numerical column gets
\* quality_score exactly 100.
C3_PerfectDataPerfectScore ==
    (/\ quality_report.status # "not called"
     /\ df.columns # <<>>
     /\ NoMissing(df)
     /\ DuplicatedCount(df) = 0
     /\ NoOutlier(df))
        => /\ quality_report.status = "returned"
           /\ quality_report.value.quality_score = Rat(100, 1)

\* C3 on the datasets with at least one row
C3_PerfectDataPerfectScoreWithRows ==
    (/\ quality_report.status # "not called"
     /\ df.columns # <<>>
     /\ NRows(df) > 0
     /\ NoMissing(df)
     /\ DuplicatedCount(df) = 0
     /\ NoOutlier(df))
        => /\ quality_report.status = "returned"
           /\ quality_report.value.quality_score = Rat(100, 1)

\* the dataset x = [1, 2, 3, 4, 100]
OutlierExample ==
    [columns |-> <<"x">>,
     dtypes |-> [c \in {"x"} |-> "int64"],
     rows |-> [i \in 1..5 |-> [c \in {"x"} |-> <<IF i = 5 THEN 100 ELSE i>>]]]

\* the rows of a numeric column that lie strictly outside the fences
\* Q1 - 1.5 * IQR = (5 * Q1 - 3 * Q3) / 2 and
\* Q3 + 1.5 * IQR = (5 * Q3 - 3 * Q1) / 2, compared in integers
StrictlyOutsideFences(frame, col) ==
    LET Q1 == Quantile(frame, col, 1)
        Q3 == Quantile(frame, col, 3)
    IN IF IsNaN(Q1) \/ IsNaN(Q3) THEN {}
       ELSE {i \in NonNull(frame, col) :
               LET v == frame.rows[i][col][1]
               IN \/ 2 * v * Q1.den * Q3.den
                        < 5 * Q1.num * Q3.den - 3 * Q3.num * Q1.den
                  \/ 2 * v * Q1.den * Q3.den
                        > 5 * Q3.num * Q1.den - 3 * Q1.num * Q3.den}

\* C11: in every report, the outlier count of each numeric column is the
\* number of its values strictly below Q1 - 1.5 * IQR or strictly above
\* Q3 + 1.5 * IQR, the percentage is that count over the row count times
\* 100 rounded to two decimals, and x = [1, 2, 3, 4, 100] has Q1 = 2,
\* Q3 = 4 and exactly one outlier
C11_OutlierCountStrictFences ==
    quality_report.status = "returned" =>
        /\ DOMAIN quality_report.value.outlier_summary
               = {c \in Range(df.columns) : df.dtypes[c] \in NpNumber}
        /\ \A c \in DOMAIN quality_report.value.outlier_summary :
              LET entry == quality_report.value.outlier_summary[c]
                  hundredths == entry.percentage.num * (100 \div entry.percentage.den)
              IN /\ entry.count = Cardinality(StrictlyOutsideFences(df, c))
                 /\ ~IsNaN(entry.percentage)
                 /\ 100 % entry.percentage.den = 0
                 /\ 2 * Abs(hundredths * NRows(df) - entry.count * 10000)
                        <= NRows(df)
        /\ df = OutlierExample =>
              /\ Quantile(df, "x", 1) = Rat(2, 1)
              /\ Quantile(df, "x", 3) = Rat(4, 1)
              /\ quality_report.value.outlier_summary["x"].count = 1

\* the report of x = [1, 2, 3, 4, 100] counts the value 100 alone
C11_Witness ==
    /\ df = OutlierExample
    /\ quality_report.status = "returned"
    /\ quality_report.value.outlier_summary["x"] =
           [count |-> 1, percentage |-> Rat(20, 1)]

\* C20: check_data_quality reports total_rows equal to the number of rows
\* of the dataset, total_columns equal to its number of columns and a
\* quality_score strictly greater than 0
C20_RowsColumnsAndPositiveScore ==
    (quality_report.status # "not called" /\ df.columns # <<>>)
        => /\ quality_report.status = "returned"
           /\ quality_report.value.total_rows = Len(df.rows)
           /\ quality_report.value.total_columns = Len(df.columns)
           /\ FLt(Rat(0, 1), quality_report.value.quality_score)

\* C20 on the datasets with at least one row, the sample data of the tests
\* among them (3 rows, 4 columns)
C20_RowsColumnsAndPositiveScoreWithRows ==
    (quality_report.status # "not called" /\ df.columns # <<>> /\ Len(df.rows) > 0)
        => /\ quality_report.status = "returned"
           /\ quality_report.value.total_rows = Len(df.rows)
           /\ quality_report.value.total_columns = Len(df.columns)
           /\ FLt(Rat(0, 1), quality_report.value.quality_score)
           /\ df = sample_data =>
                 /\ quality_report.value.total_rows = 3
                 /\ quality_report.value.total_columns = 4
                 /\ quality_report.value.quality_score = Rat(100, 1)

\* the sum of the percentages of a summary in hundredths of a percent (the
\* percentages are rounded to two decimals)
Hundredths(summary) ==
    SumInt([c \in DOMAIN summary |->
               summary[c].percentage.num * (100 \div summary[c].percentage.den)],
           DOMAIN summary)

\* min(n / d, cap) for integers n >= 0, d > 0
CappedAt(n, d, cap) == IF n < cap * d THEN Rat(n, d) ELSE Rat(cap, 1)

\* 100 - min(0.5 * avg_missing_pct, 30) - min(0.3 * dup_pct, 20)
\*     - min(0.2 * avg_outlier_pct, 15) from the entries of a report with at
\* least one row and one column, floored at 0
ScoreOfReport(report) ==
    LET ncols == Cardinality(DOMAIN report.missing_value_summary)
        nnum == Cardinality(DOMAIN report.outlier_summary)
        missing == CappedAt(Hundredths(report.missing_value_summary),
                            200 * ncols, 30)
        duplicate == CappedAt(30 * report.duplicate_rows, report.total_rows, 20)
        outlier == IF nnum = 0 THEN Rat(0, 1)
                   ELSE CappedAt(Hundredths(report.outlier_summary),
                                 500 * nnum, 15)
        total == FAdd(missing, FAdd(duplicate, outlier))
    IN IF total.num > 100 * total.den THEN Rat(0, 1)
       ELSE FSub(Rat(100, 1), total)

\* C21: quality_score = max(0, 100 - min(0.5 * avg_missing_pct, 30)
\* - min(0.3 * dup_pct, 20) - min(0.2 * avg_outlier_pct, 15)), where
\* avg_missing_pct is the mean of the missing percentages over all columns,
\* dup_pct = 100 * duplicate_rows / row_count and avg_outlier_pct the mean of
\* the outlier percentages over the numeric columns (0 when there is none)
C21_ScoreFormula ==
    (quality_report.status = "returned" /\ quality_report.value.total_rows > 0)
        => /\ DOMAIN quality_report.value.missing_value_summary
                 = Range(df.columns)
           /\ DOMAIN quality_report.value.outlier_summary
                 = {c \in Range(df.columns) : df.dtypes[c] \in NpNumber}
           /\ quality_report.value.quality_score
                 = ScoreOfReport(quality_report.value)

\* a report in which missing values, duplicate rows and outliers all lower
\* the score
C21_Witness ==
    /\ quality_report.status = "returned"
    /\ quality_report.value.total_rows > 0
    /\ Hundredths(quality_report.value.missing_value_summary) > 0
    /\ quality_report.value.duplicate_rows > 0
    /\ Hundredths(quality_report.value.outlier_summary) > 0
    /\ quality_report.value.quality_score
           = ScoreOfReport(quality_report.value)
    /\ FLt(quality_report.value.quality_score, Rat(100, 1))

\* C22: for a dataset with zero rows and at least one column
\* check_data_quality raises no error, every missing-value and outlier
\* percentage of the report is 0 and quality_score is 100
C22_ZeroRowsScoreHundred ==
    (quality_report.status # "not called" /\ df.columns # <<>> /\ NRows(df) = 0)
        => /\ quality_report.status = "returned"
           /\ \A c \in DOMAIN quality_report.value.missing_value_summary :
                 quality_report.value.missing_value_summary[c].percentage
                     = Rat(0, 1)
           /\ \A c \in DOMAIN quality_report.value.outlier_summary :
                 quality_report.value.outlier_summary[c].percentage = Rat(0, 1)
           /\ quality_report.value.quality_score = Rat(100, 1)

\* C23: check_data_quality on a dataset with zero columns fails with the
\* error EmptyDatasetError, not a generic arithmetic or key error, and
\* returns no report
C23_ZeroColumnsEmptyDatasetError ==
    (quality_report.status # "not called" /\ df.columns = <<>>)
        => /\ quality_report.status = "raised"
           /\ quality_report.error = "EmptyDatasetError"

\* the call on a dataset with zero columns ends with an exception and
\* without a report
C23_ZeroColumnsRaises ==
    (quality_report.status # "not called" /\ df.columns = <<>>)
        => quality_report.status = "raised"

\* C25: for every dataset with at least one row and one column, columns
\* with some or all values missing included, quality_score is a defined
\* number, and the mean, median, standard deviation and quartiles of a
\* numeric column are those of its non-missing values
C25_ScoreNeverNaN ==
    (quality_report.status # "not called" /\ df.columns # <<>> /\ NRows(df) > 0)
        => /\ quality_report.status = "returned"
           /\ ~IsNaN(quality_report.value.quality_score)
           /\ \A c \in DOMAIN quality_report.value.outlier_summary :
                 ~IsNaN(quality_report.value.outlier_summary[c].percentage)
           /\ \A c \in DOMAIN quality_report.value.missing_value_summary :
                 ~IsNaN(quality_report.value.missing_value_summary[c].percentage)
           /\ \A c \in DOMAIN quality_report.value.outlier_summary :
                 LET present == {i \in 1..NRows(df) : df.rows[i][c] # <<>>}
                     dist == quality_report.value.data_distribution[c]
                 IN (df.dtypes[c] \in {"int64", "float64"} /\ present # {}) =>
                       /\ dist.mean # <<>>
                       /\ ~IsNaN(dist.mean[1])
                       /\ dist.mean[1].num * Cardinality(present)
                             = dist.mean[1].den
                                 * SumInt([i \in present |-> df.rows[i][c][1]],
                                          present)
                       /\ ~IsNaN(dist.median[1])
                       /\ \E i \in present : dist.min[1] = df.rows[i][c][1]
                       /\ \E i \in present : dist.max[1] = df.rows[i][c][1]

\* a dataset with rows whose numeric column has no value at all, and one
\* with a missing and a present value, were profiled and scored
C25_Witness ==
    /\ quality_report.status = "returned"
    /\ NRows(df) >= 2
    /\ \E c \in DOMAIN quality_report.value.outlier_summary :
          /\ \E i \in 1..NRows(df) : df.rows[i][c] = <<>>
          /\ \E i \in 1..NRows(df) : df.rows[i][c] # <<>>
    /\ ~IsNaN(quality_report.value.quality_score)

\* C28: whenever quality_score is a defined number it is at least 35: each
\* deduction is non-negative and capped (30, 20, 15), so the floor at 0
\* never decides the result
C28_ScoreAtLeast35 ==
    (quality_report.status = "returned"
         /\ ~IsNaN(quality_report.value.quality_score))
        => /\ FLe(Rat(35, 1), quality_report.value.quality_score)
           /\ FLe(Rat(0, 1), MissingDeduction(quality_report.value))
           /\ FLe(MissingDeduction(quality_report.value), Rat(30, 1))
           /\ FLe(Rat(0, 1), DuplicateDeduction(quality_report.value))
           /\ FLe(DuplicateDeduction(quality_report.value), Rat(20, 1))
           /\ FLe(Rat(0, 1), OutlierDeduction(quality_report.value))
           /\ FLe(OutlierDeduction(quality_report.value), Rat(15, 1))

\* a column without any value in four rows: the missing deduction is capped
\* at 30, the duplicate deduction at 20, the score is 50
C28_Witness ==
    /\ quality_report.status = "returned"
    /\ NRows(df) >= 4
    /\ \A c \in DOMAIN quality_report.value.missing_value_summary :
          quality_report.value.missing_value_summary[c].percentage
              = Rat(100, 1)
    /\ quality_report.value.quality_score = Rat(50, 1)

---------------------------------------------------------------------------
(* validate_business_rules *)

\* the four rule blocks of validate_business_rules, in the order of the code
BusinessRules ==
    <<[rule |-> "positive_transaction_amounts",
       column |-> "transaction_amount",
       check |-> "amount",
       description |-> "Transaction amounts must be positive"],
      [rule |-> "reasonable_customer_age",
       column |-> "age",
       check |-> "age",
       description |-> "Customer age should be between 18 and 120"],
      [rule |-> "no_future_dates_transaction_timestamp",
       column |-> "transaction_timestamp",
       check |-> "date",
       description |-> "transaction_timestamp should not be in the future"],
      [rule |-> "no_future_dates_registration_date",
       column |-> "registration_date",
       check |-> "date",
       description |-> "registration_date should not be in the future"]>>

AllRules == DOMAIN BusinessRules

\* a rule that lets the amount 0 pass
NonPositiveAmount_Strict(v) == v < 0

\* df['transaction_amount'] <= 0
NonPositiveAmount(v) == v <= 0

\* a rule that rejects the ages 18 and 120
InvalidAge_Inclusive(v) == v <= 18 \/ v >= 120

\* (df['age'] < 18) | (df['age'] > 120)
InvalidAge(v) == v < 18 \/ v > 120

\* pd.to_datetime(df[col]) > current_time
FutureDate(v, now) == v > now

\* the rows a rule block selects; a comparison with a missing value is False
ViolatingRows(frame, rule, now) ==
    {i \in NonNull(frame, rule.column) :
        LET v == frame.rows[i][rule.column][1]
        IN CASE rule.check = "amount" -> NonPositiveAmount(v)
             [] rule.check = "age" -> InvalidAge(v)
             [] rule.check = "date" -> FutureDate(v, now)}

\* a rule block that lists its rule, with the count 0, when the column is
\* absent
ApplyRule_AbsentColumnListed(frame, rule, now, business_validation) ==
    LET count == IF rule.column \in Range(frame.columns)
                 THEN Cardinality(ViolatingRows(frame, rule, now))
                 ELSE 0
    IN IF rule.column \notin Range(frame.columns) \/ count > 0
       THEN [valid |-> FALSE,
             violations |->
                 Append(business_validation.violations,
                        [rule |-> rule.rule,
                         violation_count |-> count,
                         description |-> rule.description])]
       ELSE business_validation

\* a rule block that lists its rule whenever the column is there, without
\* looking at the count or touching valid
ApplyRule_ListsZeroCount(frame, rule, now, business_validation) ==
    IF rule.column \in Range(frame.columns)
    THEN LET count == Cardinality(ViolatingRows(frame, rule, now))
         IN [valid |-> business_validation.valid /\ count = 0,
             violations |->
                 Append(business_validation.violations,
                        [rule |-> rule.rule,
                         violation_count |-> count,
                         description |-> rule.description])]
    ELSE business_validation

\* one rule block applied to the result so far
ApplyRule(frame, rule, now, business_validation) ==
    IF rule.column \in Range(frame.columns)
    THEN LET count == Cardinality(ViolatingRows(frame, rule, now))
         IN IF count > 0
            THEN [valid |-> FALSE,
                  violations |->
                      Append(business_validation.violations,
                             [rule |-> rule.rule,
                              violation_count |-> count,
                              description |-> rule.description])]
            ELSE business_validation
    ELSE business_validation

\* the result after the first k rule blocks, of which those in evaluated run
RECURSIVE ApplyRules(_, _, _, _)
ApplyRules(frame, now, evaluated, k) ==
    IF k = 0 THEN [valid |-> TRUE, violations |-> <<>>]
    ELSE LET before == ApplyRules(frame, now, evaluated, k - 1)
         IN IF k \in evaluated
            THEN ApplyRule(frame, BusinessRules[k], now, before)
            ELSE before

\* validate_business_rules(df), with current_time = datetime.now() = now
validate_business_rules(frame, now) ==
    ApplyRules(frame, now, AllRules, Len(BusinessRules))

\* the column layouts of the datasets the business rules are applied to
OneColumn(name, dtype, cells) ==
    [columns |-> <<name>>,
     dtypes |-> [c \in {name} |-> dtype],
     cells |-> [c \in {name} |-> cells]]

RuleLayouts ==
    {OneColumn("transaction_amount", "float64", {<<>>, <<-5>>, <<0>>, <<10>>, <<20>>}),
     OneColumn("amt", "int64", {<<-5>>, <<10>>, <<20>>}),
     OneColumn("age", "int64", {<<10>>, <<18>>, <<25>>, <<30>>, <<120>>, <<150>>}),
     OneColumn("transaction_timestamp", "datetime64[ns]", {<<>>, <<1>>, <<2>>, <<3>>}),
     OneColumn("registration_date", "datetime64[ns]", {<<1>>, <<3>>}),
     [columns |-> <<"transaction_amount", "age", "transaction_timestamp",
                    "registration_date">>,
      dtypes |-> [c \in {"transaction_amount", "age", "transaction_timestamp",
                         "registration_date"} |->
                    CASE c = "transaction_amount" -> "float64"
                      [] c = "age" -> "int64"
                      [] OTHER -> "datetime64[ns]"],
      cells |-> [c \in {"transaction_amount", "age", "transaction_timestamp",
                        "registration_date"} |->
                    CASE c = "transaction_amount" -> {<<-5>>, <<10>>}
                      [] c = "age" -> {<<10>>, <<25>>}
                      [] c = "transaction_timestamp" -> {<<2>>}
                      [] OTHER -> {<<1>>, <<3>>}]]}

InitRules ==
    /\ ValidatorFresh
    /\ ProjectIdle
    /\ PipelineIdle
    /\ \E l \in RuleLayouts : df \in FramesOf(l, MaxRuleRows)
    /\ RulesIdle
    /\ QualityIdle
    /\ SchemaIdle
    /\ DriftIdle

\* a call of validate_business_rules(df); the result of the call before it
\* on the same dataset is kept
ValidateBusinessRules ==
    /\ current_time' = clock
    /\ rules_result' = Returned(validate_business_rules(df, clock))
    /\ prev_rules_result' = rules_result
    /\ df' = InputAfterCall(df)
    /\ validation_results' =
           FieldAfterCall(validation_results,
                          Returned(validate_business_rules(df, clock)))
    /\ quality_metrics' =
           FieldAfterCall(quality_metrics,
                          Returned(validate_business_rules(df, clock)))
    /\ UNCHANGED <<clock, schemaVars, qualityVars, driftVars>>
    /\ UNCHANGED <<projectVars, pipelineVars>>

\* time passes
Tick ==
    /\ clock < MaxClock
    /\ clock' = clock + 1
    /\ UNCHANGED <<validatorVars, df, current_time, rules_result,
                   prev_rules_result, schemaVars, qualityVars, driftVars>>
    /\ UNCHANGED <<projectVars, pipelineVars>>

NextRules == ValidateBusinessRules \/ Tick

SpecRules == InitRules /\ [][NextRules]_vars

\* the entries of a result's violations list that carry the rule name
EntriesOf(result, name) ==
    {i \in DOMAIN result.violations : result.violations[i].rule = name}

\* the frame whose only column, called name, holds the given values
FrameOfColumn(name, dtype, values) ==
    [columns |-> <<name>>,
     dtypes |-> [c \in {name} |-> dtype],
     rows |-> [i \in DOMAIN values |-> [c \in {name} |-> <<values[i]>>]]]

\* C6: a rule whose target column is absent from the dataset is skipped: it
\* adds no violation entry and the result is the one obtained with that
\* rule block not evaluated at all.
C6_AbsentColumnRuleSkipped ==
    rules_result.status = "returned" =>
        \A k \in AllRules :
            BusinessRules[k].column \notin Range(df.columns) =>
                /\ EntriesOf(rules_result.value, BusinessRules[k].rule) = {}
                /\ rules_result.value =
                       ApplyRules(df, current_time, AllRules \ {k},
                                  Len(BusinessRules))

\* the rules ran on a dataset that lacks the age column and has a
\* non-positive transaction amount
C6_Witness ==
    /\ rules_result.status = "returned"
    /\ df.columns = <<"transaction_amount">>
    /\ rules_result.value.violations # <<>>

\* C7: valid is true if and only if the violations list is empty, and every
\* listed violation has violation_count > 0.
C7_ValidIffNoViolations ==
    rules_result.status = "returned" =>
        /\ rules_result.value.valid <=> (rules_result.value.violations = <<>>)
        /\ \A i \in DOMAIN rules_result.value.violations :
              rules_result.value.violations[i].violation_count > 0

\* the rules ran on a dataset with the four rule columns and found two or
\* more rules violated
C7_Witness ==
    /\ rules_result.status = "returned"
    /\ Len(df.columns) = 4
    /\ ~rules_result.value.valid
    /\ Len(rules_result.value.violations) >= 2

C9_ReasonableAge ==
    rules_result.status = "returned" =>
        /\ "age" \in Range(df.columns) =>
              LET n == Cardinality({i \in NonNull(df, "age") :
                                      \/ df.rows[i]["age"][1] < 18
                                      \/ df.rows[i]["age"][1] > 120})
                  E == EntriesOf(rules_result.value, "reasonable_customer_age")
              IN /\ n = 0 => E = {}
                 /\ n > 0 =>
                      /\ Cardinality(E) = 1
                      /\ \A i \in E :
                            rules_result.value.violations[i].violation_count = n
        /\ df = FrameOfColumn("age", "int64", <<10, 25, 30, 150>>) =>
              /\ Len(rules_result.value.violations) = 1
              /\ rules_result.value.violations[1].violation_count = 2

\* the rules ran on age = [10, 25, 30, 150]
C9_Witness ==
    /\ rules_result.status = "returned"
    /\ df = FrameOfColumn("age", "int64", <<10, 25, 30, 150>>)

\* C10: the evaluation instant is an argument of the call and the clock is
\* never read, so two evaluations of the same dataset (there is no other
\* argument) give the same result no matter when they are executed.
C10_SameDatasetSameResult ==
    (prev_rules_result.status = "returned" /\ rules_result.status = "returned")
        => rules_result = prev_rules_result

---------------------------------------------------------------------------
(* validate_data_schema and _types_compatible *)

\* str.lower() on the dtype names and type tags of the model
Lower(str) ==
    CASE str = "Int64" -> "int64"
      [] str = "INT" -> "int"
      [] str = "Integer" -> "integer"
      [] str = "Float" -> "float"
      [] OTHER -> str

\* key in str, for a key of type_mappings and a lower-case dtype name
Contains(str, key) ==
    CASE key = "int64" -> str \in {"int64", "uint64"}
      [] key = "float64" -> str = "float64"
      [] key = "object" -> str = "object"
      [] key = "datetime64[ns]" -> str = "datetime64[ns]"
      [] key = "bool" -> str \in {"bool", "boolean"}
      [] OTHER -> FALSE

\* type_mappings, in the order the dict is iterated
type_mappings ==
    <<[actual |-> "int64", compatible_list |-> {"int", "integer", "numeric"}],
      [actual |-> "float64", compatible_list |-> {"float", "numeric", "decimal"}],
      [actual |-> "object", compatible_list |-> {"string", "text", "categorical"}],
      [actual |-> "datetime64[ns]", compatible_list |-> {"datetime", "timestamp"}],
      [actual |-> "bool", compatible_list |-> {"boolean", "bool"}]>>

\* _types_compatible: the first key found in the dtype name decides
_types_compatible(actual_type, expected_type) ==
    LET hits == {i \in DOMAIN type_mappings :
                    Contains(Lower(actual_type), type_mappings[i].actual)}
    IN IF hits = {} THEN FALSE
       ELSE LET first == CHOOSE i \in hits : \A j \in hits : i <= j
            IN Lower(expected_type) \in type_mappings[first].compatible_list

\* a schema_valid that the type mismatches do not clear
SchemaValid_IgnoresTypes(missing_cols, unexpected_cols, mismatched) ==
    ~(missing_cols # {} \/ unexpected_cols # {})

\* schema_valid: it starts True, is set to False when a column is missing
\* or unexpected and again for every type mismatch
SchemaValid(missing_cols, unexpected_cols, mismatched) ==
    /\ ~(missing_cols # {} \/ unexpected_cols # {})
    /\ mismatched = {}

\* validate_data_schema(df, expected_schema); the two column lists are
\* built from sets and are kept as sets
validate_data_schema(frame, schema) ==
    LET expected_cols == DOMAIN schema
        actual_cols == Range(frame.columns)
        missing_cols == expected_cols \ actual_cols
        unexpected_cols == actual_cols \ expected_cols
        mismatched == {col \in expected_cols \cap actual_cols :
                          ~_types_compatible(frame.dtypes[col], schema[col])}
    IN [schema_valid |-> SchemaValid(missing_cols, unexpected_cols, mismatched),
        missing_columns |-> missing_cols,
        unexpected_columns |-> unexpected_cols,
        type_mismatches |-> [col \in mismatched |->
                                [expected |-> schema[col],
                                 actual |-> frame.dtypes[col]]]]

\* the columns a dataset or an expected schema may have, with the dtypes and
\* the type tags each may carry
SchemaColumns == {"customer_id", "age", "income"}

DtypesOf(col) ==
    CASE col = "customer_id" -> {"object", "category"}
      [] col = "age" -> {"int64", "Int64", "int32", "uint64"}
      [] OTHER -> {"float64", "int64", "datetime64[ns]", "bool", "boolean"}

TagsOf(col) ==
    CASE col = "customer_id" -> {"string", "categorical", "int"}
      [] col = "age" -> {"int", "INT", "Integer", "float"}
      [] OTHER -> {"float", "Float", "numeric", "datetime", "boolean"}

ColumnOrder == <<"customer_id", "age", "income">>

\* the frame without rows that has the columns S with the dtypes d
SchemaFrame(S, d) ==
    LET Chosen(c) == c \in S
    IN [columns |-> SelectSeq(ColumnOrder, Chosen), dtypes |-> d, rows |-> <<>>]

DtypeChoices(S) ==
    {d \in [S -> UNION {DtypesOf(c) : c \in SchemaColumns}] :
        \A c \in S : d[c] \in DtypesOf(c)}

SchemaChoices(S) ==
    {sch \in [S -> UNION {TagsOf(c) : c \in SchemaColumns}] :
        \A c \in S : sch[c] \in TagsOf(c)}

InitSchema ==
    /\ ValidatorFresh
    /\ ProjectIdle
    /\ PipelineIdle
    /\ \/ \E S \in SUBSET SchemaColumns :
             \E d \in DtypeChoices(S) : df = SchemaFrame(S, d)
       \/ df = sample_data
       \/ df = None
    /\ \/ \E S \in SUBSET SchemaColumns : expected_schema \in SchemaChoices(S)
       \/ expected_schema = test_schema
    /\ schema_result = NotCalled
    /\ QualityIdle
    /\ RulesIdle
    /\ DriftIdle

\* a call of validate_data_schema(df, expected_schema); df.columns of None
\* raises AttributeError
ValidateDataSchema ==
    /\ schema_result' = IF df = None THEN Raised("AttributeError")
                        ELSE Returned(validate_data_schema(df, expected_schema))
    /\ df' = InputAfterCall(df)
    /\ validation_results' = FieldAfterCall(validation_results, schema_result')
    /\ quality_metrics' = FieldAfterCall(quality_metrics, schema_result')
    /\ UNCHANGED <<expected_schema, qualityVars, rulesVars, driftVars>>
    /\ UNCHANGED <<projectVars, pipelineVars>>

NextSchema == ValidateDataSchema

SpecSchema == InitSchema /\ [][NextSchema]_vars

\* C4: missing_columns and unexpected_columns are disjoint, and
\* schema_valid is true if and only if missing_columns, unexpected_columns
\* and type_mismatches are all empty.
C4_SchemaSymmetry ==
    schema_result.status = "returned" =>
        /\ schema_result.value.missing_columns
              \cap schema_result.value.unexpected_columns = {}
        /\ schema_result.value.schema_valid <=>
              /\ schema_result.value.missing_columns = {}
              /\ schema_result.value.unexpected_columns = {}
              /\ DOMAIN schema_result.value.type_mismatches = {}

\* a schema validation found the expected columns, one of them of an
\* incompatible type, and answered that the schema is not valid
C4_Witness ==
    /\ schema_result.status = "returned"
    /\ schema_result.value.missing_columns = {}
    /\ schema_result.value.unexpected_columns = {}
    /\ DOMAIN schema_result.value.type_mismatches # {}
    /\ ~schema_result.value.schema_valid

\* the storage type of a dtype: integer, floating, textual, temporal or
\* boolean
StorageType(dtype) ==
    CASE dtype \in {"int64", "Int64", "int32", "uint64"} -> "integer"
      [] dtype = "float64" -> "floating"
      [] dtype = "object" -> "textual"
      [] dtype = "datetime64[ns]" -> "temporal"
      [] dtype \in {"bool", "boolean"} -> "boolean"
      [] OTHER -> "other"

\* the compatibility list of a storage type
CompatibilityList(storage) ==
    CASE storage = "integer" -> {"int", "integer", "numeric"}
      [] storage = "floating" -> {"float", "numeric", "decimal"}
      [] storage = "textual" -> {"string", "text", "categorical"}
      [] storage = "temporal" -> {"datetime", "timestamp"}
      [] storage = "boolean" -> {"boolean", "bool"}
      [] OTHER -> {}

\* for the given dtypes: a type mismatch is recorded for a column of the
\* dataset and the schema exactly when the expected tag, in lower case, is
\* not in the compatibility list of the column's storage type, and the
\* entry holds the expected tag and the dtype name as they were given
MismatchIffIncompatible(dtypes) ==
    schema_result.status = "returned" =>
        \A col \in DOMAIN expected_schema \cap Range(df.columns) :
            df.dtypes[col] \in dtypes =>
                /\ col \in DOMAIN schema_result.value.type_mismatches
                      <=> Lower(expected_schema[col])
                            \notin CompatibilityList(StorageType(df.dtypes[col]))
                /\ col \in DOMAIN schema_result.value.type_mismatches
                      => schema_result.value.type_mismatches[col]
                           = [expected |-> expected_schema[col],
                              actual |-> df.dtypes[col]]

\* C18: for every column of both the dataset and the expected schema a type
\* mismatch is recorded exactly when the expected tag is not in the
\* compatibility list of the column's storage type (integer, floating,
\* textual, temporal or boolean), and the entry carries the expected tag and
\* the observed type unchanged
C18_MismatchIffIncompatible ==
    MismatchIffIncompatible({"int64", "Int64", "int32", "uint64", "float64",
                             "object", "datetime64[ns]", "bool", "boolean"})

\* C18 for the columns whose dtype name contains a key of type_mappings
C18_MismatchIffIncompatibleMappedDtypes ==
    MismatchIffIncompatible({"int64", "Int64", "uint64", "float64",
                             "object", "datetime64[ns]", "bool", "boolean"})

\* C19: validate_data_schema answers schema_valid = true for the sample
\* data of the tests (customer_id and gender hold text, age integers, income
\* the whole numbers 50000, 60000, 70000 stored as integers) and the schema
\* customer_id: string, age: int, income: float, gender: string
C19_SampleDataSchemaValid ==
    (/\ schema_result.status = "returned"
     /\ df = sample_data
     /\ expected_schema = test_schema)
        => schema_result.value.schema_valid

\* C24: validate_data_schema fails with InvalidSchemaError when the
\* expected schema is empty or the dataset is null, and raises nothing for
\* a non-null dataset with a non-empty expected schema
C24_InvalidSchemaError ==
    schema_result.status # "not called" =>
        IF DOMAIN expected_schema = {} \/ df = None
        THEN schema_result.status = "raised"
                 /\ schema_result.error = "InvalidSchemaError"
        ELSE schema_result.status = "returned"

\* the second half of C24: no call on a non-null dataset with a non-empty
\* expected schema raises
C24_NoErrorForWellFormedInput ==
    (schema_result.status # "not called"
         /\ DOMAIN expected_schema # {} /\ df # None)
        => schema_result.status = "returned"

---------------------------------------------------------------------------
(* detect_data_drift *)

FSquare(x) == IF x.nan THEN NaN ELSE Rat(x.num * x.num, x.den * x.den)

\* x / y for floats, y # 0 (NaN when either is NaN)
FDiv(x, y) ==
    IF x.nan \/ y.nan THEN NaN ELSE Rat(x.num * y.den, x.den * y.num)

\* a non-negative float given by its square: the drift scores divide by a
\* standard deviation, the square root of a rational
SqrtOf(x) == [sqrt_of |-> x]

\* a comparison that also flags a score equal to the threshold
ScoreAbove_OrEqual(score, threshold) ==
    /\ ~score.sqrt_of.nan
    /\ \/ threshold.num < 0
       \/ FLe(FSquare(threshold), score.sqrt_of)

\* score > threshold as Python evaluates it, for a score given by its
\* square: False for NaN, True below every negative threshold
ScoreAbove(score, threshold) ==
    /\ ~score.sqrt_of.nan
    /\ \/ threshold.num < 0
       \/ FLt(FSquare(threshold), score.sqrt_of)

\* a variant of NumericalDriftEntry that divides by the standard deviation
\* of the current dataset
NumericalDriftEntry_CurrentStd(reference, current, col, num_threshold) ==
    LET ref_mean == Mean(reference, col)
        cur_mean == Mean(current, col)
        cur_var == Variance(current, col)
        drift_score ==
            SqrtOf(IF cur_var = Rat(0, 1) THEN NaN
                   ELSE FDiv(FSquare(FSub(cur_mean, ref_mean)), cur_var))
    IN [drift_score |-> drift_score,
        drift_detected |-> ScoreAbove(drift_score, num_threshold),
        reference_mean |-> ref_mean,
        current_mean |-> cur_mean]

\* the numerical_drift entry of a column, ref_std != 0 (a NaN passes that
\* test and gives a NaN score)
NumericalDriftEntry(reference, current, col, num_threshold) ==
    LET ref_mean == Mean(reference, col)
        cur_mean == Mean(current, col)
        ref_var == Variance(reference, col)
        drift_score == SqrtOf(FDiv(FSquare(FSub(cur_mean, ref_mean)), ref_var))
    IN [drift_score |-> drift_score,
        drift_detected |-> ScoreAbove(drift_score, num_threshold),
        reference_mean |-> ref_mean,
        current_mean |-> cur_mean]

\* a variant of Proportion that divides by the number of rows, the missing
\* cells included
Proportion_OfAllRows(frame, col, category) ==
    IF NRows(frame) = 0 THEN Rat(0, 1)
    ELSE Rat(Cardinality({i \in NonNull(frame, col) :
                             frame.rows[i][col][1] = category}),
             NRows(frame))

\* df[col].value_counts(normalize=True).get(category, 0): the share of the
\* non-missing cells that hold the category
Proportion(frame, col, category) ==
    LET I == NonNull(frame, col)
    IN IF I = {} THEN Rat(0, 1)
       ELSE Rat(Cardinality({i \in I : frame.rows[i][col][1] = category}),
                Cardinality(I))

FAbs(x) == IF x.nan THEN NaN ELSE [x EXCEPT !.num = Abs(x.num)]

\* the categorical_drift entry of a column
CategoricalDriftEntry(reference, current, col, cat_threshold) ==
    LET all_categories ==
            {reference.rows[i][col][1] : i \in NonNull(reference, col)}
                \cup {current.rows[i][col][1] : i \in NonNull(current, col)}
        total == SumFloat([category \in all_categories |->
                              FAbs(FSub(Proportion(reference, col, category),
                                        Proportion(current, col, category)))],
                          all_categories)
        drift_score == SqrtOf(FSquare(total))
    IN [drift_score |-> drift_score,
        drift_detected |-> ScoreAbove(drift_score, cat_threshold)]

\* the largest k with k * k <= n, searched between lo and hi
RECURSIVE RootSearch(_, _, _)
RootSearch(n, lo, hi) ==
    IF lo >= hi THEN lo
    ELSE LET mid == (lo + hi + 1) \div 2
         IN IF mid * mid <= n THEN RootSearch(n, mid, hi)
            ELSE RootSearch(n, lo, mid - 1)

\* the integer part of the square root of n >= 0
IntSqrt(n) == RootSearch(n, 0, IF n > 46340 THEN 46340 ELSE n)

IsSquare(n) == IntSqrt(n) * IntSqrt(n) = n

\* a variant of MeanOfScores that halves the running value at every score:
\* right for one score only
MeanOfScores_Running(scores) ==
    [exact |-> TRUE,
     value |-> IF \E k \in DOMAIN scores : scores[k].sqrt_of.nan THEN NaN
               ELSE FScale(Rat(IntSqrt(scores[1].sqrt_of.num),
                               IntSqrt(scores[1].sqrt_of.den)),
                           1, Len(scores)),
     roots |-> <<>>]

\* float(np.mean(all_scores)) for a non-empty list of scores given by
\* their squares: NaN when a score is NaN, the exact mean when every score
\* is rational, and otherwise the unevaluated mean of the scores, each
\* listed with the number of times it occurs
MeanOfScores(scores) ==
    LET keys == DOMAIN scores
        n == Cardinality(keys)
    IN IF \E k \in keys : scores[k].sqrt_of.nan
       THEN [exact |-> TRUE, value |-> NaN, roots |-> <<>>]
       ELSE IF \A k \in keys : /\ IsSquare(scores[k].sqrt_of.num)
                               /\ IsSquare(scores[k].sqrt_of.den)
       THEN [exact |-> TRUE,
             value |-> FScale(SumFloat([k \in keys |->
                                  Rat(IntSqrt(scores[k].sqrt_of.num),
                                      IntSqrt(scores[k].sqrt_of.den))], keys),
                              1, n),
             roots |-> <<>>]
       ELSE [exact |-> FALSE, value |-> NaN,
             roots |-> [r \in Range(scores) |->
                           Cardinality({k \in keys : scores[k] = r})]]

\* a variant of CommonColumns that visits every column of the reference
CommonColumns_OfReference(reference, current) == Range(reference.columns)

\* set(reference_df.columns) & set(current_df.columns)
CommonColumns(reference, current) ==
    Range(reference.columns) \cap Range(current.columns)

\* the orders in which a Python set of columns may be iterated
Orders(S) == {order \in [1..Cardinality(S) -> S] : Range(order) = S}

\* a variant of DriftFlag that looks at the numerical columns only
DriftFlag_NumericalOnly(numerical_drift, categorical_drift, num_threshold, cat_threshold) ==
    \E col \in DOMAIN numerical_drift :
        ScoreAbove(numerical_drift[col].drift_score, num_threshold)

\* drift_report['drift_detected']: set to True in the loop whenever a
\* column's drift_score exceeds the threshold of its kind
DriftFlag(numerical_drift, categorical_drift, num_threshold, cat_threshold) ==
    \/ \E col \in DOMAIN numerical_drift :
          ScoreAbove(numerical_drift[col].drift_score, num_threshold)
    \/ \E col \in DOMAIN categorical_drift :
          ScoreAbove(categorical_drift[col].drift_score, cat_threshold)

\* detect_data_drift(reference_df, current_df, numerical_threshold,
\* categorical_threshold), the common columns visited in the given order.
\* Indexing a frame by a column it lacks raises KeyError; the mean of a
\* column of strings raises TypeError.
detect_data_drift(reference, current, num_threshold, cat_threshold, order) ==
    LET IsNumerical(col) == reference.dtypes[col] \in {"int64", "float64"}
        IsScored(col) ==
            IsNumerical(col) /\ Variance(reference, col) # Rat(0, 1)
        IsCategorical(col) == ~IsNumerical(col)
        scored == SelectSeq(order, IsScored)
        categorical == SelectSeq(order, IsCategorical)
        numerical_drift ==
            [col \in Range(scored) |->
                NumericalDriftEntry(reference, current, col, num_threshold)]
        categorical_drift ==
            [col \in Range(categorical) |->
                CategoricalDriftEntry(reference, current, col, cat_threshold)]
        all_scores ==
            [i \in 1..Len(scored) |-> numerical_drift[scored[i]].drift_score]
                \o [i \in 1..Len(categorical) |->
                       categorical_drift[categorical[i]].drift_score]
    IN IF \E col \in Range(order) :
             \/ col \notin Range(reference.columns)
             \/ col \notin Range(current.columns)
       THEN Raised("KeyError")
       ELSE IF \E col \in Range(order) :
                 IsNumerical(col) /\ current.dtypes[col] = "object"
       THEN Raised("TypeError")
       ELSE Returned(
              [drift_detected |->
                   DriftFlag(numerical_drift, categorical_drift,
                             num_threshold, cat_threshold),
               numerical_drift |-> numerical_drift,
               categorical_drift |-> categorical_drift,
               overall_drift_score |->
                   IF all_scores # <<>> THEN MeanOfScores(all_scores)
                   ELSE [exact |-> TRUE, value |-> Rat(0, 1), roots |-> <<>>]])

\* the column layouts of the reference and current datasets; the last one
\* holds strings in a column that is numerical in the others
DriftLayouts ==
    {OneColumn("income", "float64", {<<>>, <<1>>, <<3>>}),
     OneColumn("gender", "object", {<<>>, <<1>>, <<2>>}),
     [columns |-> <<"income", "gender">>,
      dtypes |-> [c \in {"income", "gender"} |->
                    IF c = "income" THEN "int64" ELSE "object"],
      cells |-> [c \in {"income", "gender"} |-> {<<1>>, <<2>>}]],
     OneColumn("income", "object", {<<1>>})}

\* a layout of two categorical columns
TwoCategoricalLayout ==
    [columns |-> <<"gender", "city">>,
     dtypes |-> [c \in {"gender", "city"} |-> "object"],
     cells |-> [c \in {"gender", "city"} |-> {<<1>>, <<2>>}]]

\* the layouts of a reference around the mean 50 and of a current dataset
\* around the mean 65
ReferenceScoreLayout == OneColumn("income", "float64", {<<40>>, <<50>>, <<60>>})

CurrentScoreLayout == OneColumn("income", "float64", {<<50>>, <<65>>})

\* the thresholds a caller passes
Thresholds == {Rat(-1, 10), Rat(0, 1), Rat(1, 10), Rat(3, 2)}

\* the (numerical_threshold, categorical_threshold) pairs a caller passes:
\* the equal ones and three unequal ones
ThresholdPairs ==
    {<<t, t>> : t \in Thresholds}
        \cup {<<Rat(0, 1), Rat(3, 2)>>, <<Rat(3, 2), Rat(0, 1)>>,
              <<Rat(1, 10), Rat(-1, 10)>>}

InitDrift ==
    /\ ValidatorFresh
    /\ ProjectIdle
    /\ PipelineIdle
    /\ \/ /\ \E l \in DriftLayouts : reference_df \in FramesOf(l, MaxDriftRows)
          /\ \E l \in DriftLayouts : current_df \in FramesOf(l, MaxDriftRows)
       \/ /\ reference_df \in FramesOf(TwoCategoricalLayout, MaxDriftRows)
          /\ current_df \in FramesOf(TwoCategoricalLayout, MaxDriftRows)
       \/ /\ reference_df \in FramesOf(ReferenceScoreLayout, MaxScoreRows)
          /\ current_df \in FramesOf(CurrentScoreLayout, MaxScoreRows)
    /\ \E pair \in ThresholdPairs :
          /\ numerical_threshold = pair[1]
          /\ categorical_threshold = pair[2]
    /\ drift_report = NotCalled
    /\ df = NoFrame
    /\ QualityIdle
    /\ SchemaIdle
    /\ RulesIdle

\* a call of detect_data_drift(reference_df, current_df,
\* numerical_threshold, categorical_threshold); the iteration order of the
\* set of common columns is not fixed
DetectDataDrift ==
    /\ \E order \in Orders(CommonColumns(reference_df, current_df)) :
          drift_report' = detect_data_drift(reference_df, current_df,
                                            numerical_threshold,
                                            categorical_threshold, order)
    /\ reference_df' = InputAfterCall(reference_df)
    /\ current_df' = InputAfterCall(current_df)
    /\ validation_results' = FieldAfterCall(validation_results, drift_report')
    /\ quality_metrics' = FieldAfterCall(quality_metrics, drift_report')
    /\ UNCHANGED <<df, numerical_threshold, categorical_threshold,
                   schemaVars, qualityVars, rulesVars>>
    /\ UNCHANGED <<projectVars, pipelineVars>>

NextDrift == DetectDataDrift

SpecDrift == InitDrift /\ [][NextDrift]_vars

\* C5: for every dataset D and all thresholds t, detect_data_drift(D, D, t, t)
\* returns drift_detected = false, and every numerical column with
\* reference standard deviation > 0 has drift_score 0.
C5_SelfComparisonNoDrift ==
    (/\ drift_report.status = "returned"
     /\ reference_df = current_df
     /\ numerical_threshold = categorical_threshold)
        => /\ ~drift_report.value.drift_detected
           /\ \A col \in Range(reference_df.columns) :
                 (/\ reference_df.dtypes[col] \in {"int64", "float64"}
                  /\ FLt(Rat(0, 1), Variance(reference_df, col)))
                     => /\ col \in DOMAIN drift_report.value.numerical_drift
                        /\ drift_report.value.numerical_drift[col].drift_score
                               = SqrtOf(Rat(0, 1))

\* C5 as amended: the same for all thresholds t >= 0.
C5_SelfComparisonNoDriftNonNegative ==
    (/\ drift_report.status = "returned"
     /\ reference_df = current_df
     /\ numerical_threshold = categorical_threshold
     /\ numerical_threshold.num >= 0)
        => /\ ~drift_report.value.drift_detected
           /\ \A col \in Range(reference_df.columns) :
                 (/\ reference_df.dtypes[col] \in {"int64", "float64"}
                  /\ FLt(Rat(0, 1), Variance(reference_df, col)))
                     => /\ col \in DOMAIN drift_report.value.numerical_drift
                        /\ drift_report.value.numerical_drift[col].drift_score
                               = SqrtOf(Rat(0, 1))

\* a dataset with a numerical column of positive standard deviation and a
\* categorical column was compared with itself at the threshold 0
C5_Witness ==
    /\ drift_report.status = "returned"
    /\ reference_df = current_df
    /\ numerical_threshold = Rat(0, 1)
    /\ categorical_threshold = Rat(0, 1)
    /\ DOMAIN drift_report.value.categorical_drift # {}
    /\ \E col \in DOMAIN drift_report.value.numerical_drift :
          FLt(Rat(0, 1), Variance(reference_df, col))

\* the non-missing values of a column, one per row that holds one
ValuesOf(frame, col) == [i \in NonNull(frame, col) |-> frame.rows[i][col][1]]

\* the square of |mean(cur) - mean(ref)| / std(ref) from the sums of the two
\* columns: with m values of sum s in the reference and n values of sum t
\* in the current dataset it is
\* (t * m - s * n)^2 * (m - 1) / (n^2 * sum of (m * v - s)^2)
ScoreSquareFromSums(reference, current, col) ==
    LET ref == ValuesOf(reference, col)
        cur == ValuesOf(current, col)
        m == Cardinality(DOMAIN ref)
        n == Cardinality(DOMAIN cur)
        s == SumInt(ref, DOMAIN ref)
        t == SumInt(cur, DOMAIN cur)
        ss == SumInt([i \in DOMAIN ref |-> (m * ref[i] - s) * (m * ref[i] - s)],
                     DOMAIN ref)
    IN IF n = 0 THEN NaN
       ELSE Rat((t * m - s * n) * (t * m - s * n) * (m - 1), n * n * ss)

\* the numeric common columns whose reference has at least two values that
\* are not all equal: a standard deviation greater than 0
PositiveStdColumns ==
    {col \in Range(reference_df.columns) \cap Range(current_df.columns) :
        /\ reference_df.dtypes[col] \in {"int64", "float64"}
        /\ \E i, j \in NonNull(reference_df, col) :
              reference_df.rows[i][col] # reference_df.rows[j][col]}

NumericCommonColumns ==
    {col \in Range(reference_df.columns) \cap Range(current_df.columns) :
        reference_df.dtypes[col] \in {"int64", "float64"}}

\* the drift_score values of a report
ReportedScores(report) ==
    {report.numerical_drift[col].drift_score :
        col \in DOMAIN report.numerical_drift}
      \cup {report.categorical_drift[col].drift_score :
               col \in DOMAIN report.categorical_drift}

\* C13: a numeric column whose reference standard deviation is zero or
\* undefined (a constant, single-value or all-missing reference column) has
\* no numerical_drift entry, and every reported drift_score and the
\* overall_drift_score are defined numbers
C13_UndefinedStdExcluded ==
    drift_report.status = "returned" =>
        /\ \A col \in NumericCommonColumns \ PositiveStdColumns :
              col \notin DOMAIN drift_report.value.numerical_drift
        /\ \A score \in ReportedScores(drift_report.value) :
              ~IsNaN(score.sqrt_of)
        /\ \/ ~drift_report.value.overall_drift_score.exact
           \/ ~IsNaN(drift_report.value.overall_drift_score.value)

\* C13 for the references whose standard deviation is zero: a column with
\* at least two values, all equal, has no entry
C13_ZeroStdExcluded ==
    drift_report.status = "returned" =>
        \A col \in NumericCommonColumns \ PositiveStdColumns :
            Cardinality(NonNull(reference_df, col)) >= 2
                => col \notin DOMAIN drift_report.value.numerical_drift

\* the entries of numerical_drift and categorical_drift, each under its
\* kind and column
EntriesOfReport(report) ==
    [k \in ({"numerical"} \X DOMAIN report.numerical_drift)
              \cup ({"categorical"} \X DOMAIN report.categorical_drift) |->
        IF k[1] = "numerical" THEN report.numerical_drift[k[2]]
        ELSE report.categorical_drift[k[2]]]

\* C14: the top-level drift_detected of a report is true exactly when at
\* least one entry of numerical_drift or categorical_drift has
\* drift_detected true
C14_DriftDetectedIffSomeColumn ==
    drift_report.status = "returned" =>
        (drift_report.value.drift_detected
            <=> \E k \in DOMAIN EntriesOfReport(drift_report.value) :
                   EntriesOfReport(drift_report.value)[k].drift_detected)

\* a report with a numerical entry that is not flagged and a categorical
\* entry that is: the top-level flag is set
C14_Witness ==
    /\ drift_report.status = "returned"
    /\ drift_report.value.drift_detected
    /\ \E col \in DOMAIN drift_report.value.numerical_drift :
          ~drift_report.value.numerical_drift[col].drift_detected
    /\ \A col \in DOMAIN drift_report.value.numerical_drift :
          ~drift_report.value.numerical_drift[col].drift_detected
    /\ \E col \in DOMAIN drift_report.value.categorical_drift :
          drift_report.value.categorical_drift[col].drift_detected

\* the rational whose square is the given one
RootOf(square) == Rat(IntSqrt(square.num), IntSqrt(square.den))

\* the report has a score and every score is a rational number
RationalScores(report) ==
    /\ ReportedScores(report) # {}
    /\ \A score \in ReportedScores(report) :
          /\ ~IsNaN(score.sqrt_of)
          /\ IsSquare(score.sqrt_of.num)
          /\ IsSquare(score.sqrt_of.den)

Restrict(frame, cols) ==
    LET Kept(c) == c \in cols
    IN [columns |-> SelectSeq(frame.columns, Kept),
        dtypes |-> [c \in Range(frame.columns) \cap cols |-> frame.dtypes[c]],
        rows |-> [i \in 1..NRows(frame) |->
                    [c \in Range(frame.columns) \cap cols |-> frame.rows[i][c]]]]

\* C16: every key of numerical_drift and categorical_drift is a column of
\* both datasets, and the outcome is the one of the call on the two
\* datasets without the columns that only one of them has: such a column
\* changes nothing in the report and raises no error
C16_OnlyCommonColumns ==
    drift_report.status # "not called" =>
        LET common == Range(reference_df.columns) \cap Range(current_df.columns)
        IN /\ drift_report.status = "returned" =>
                 DOMAIN drift_report.value.numerical_drift
                     \cup DOMAIN drift_report.value.categorical_drift
                   \subseteq common
           /\ \A order \in Orders(common) :
                 drift_report = detect_data_drift(Restrict(reference_df, common),
                                                  Restrict(current_df, common),
                                                  numerical_threshold,
                                                  categorical_threshold, order)

\* the reference has a numeric column that the current dataset lacks, and
\* the report holds the categorical column of both alone
C16_Witness ==
    /\ drift_report.status = "returned"
    /\ reference_df.columns = <<"income", "gender">>
    /\ current_df.columns = <<"gender">>
    /\ NRows(reference_df) > 0
    /\ NRows(current_df) > 0
    /\ drift_report.value.numerical_drift = <<>>
    /\ DOMAIN drift_report.value.categorical_drift = {"gender"}

\* the number of non-missing cells of a column that hold the category
CountOf(frame, col, category) ==
    Cardinality({i \in NonNull(frame, col) : frame.rows[i][col][1] = category})

\* the sum over the categories of either dataset of
\* |reference proportion - current proportion|, a category that a dataset
\* lacks (or any category of a dataset without values) counting as 0
ProportionDistance(reference, current, col) ==
    LET m == Cardinality(NonNull(reference, col))
        n == Cardinality(NonNull(current, col))
        categories == {reference.rows[i][col][1] : i \in NonNull(reference, col)}
                        \cup {current.rows[i][col][1] : i \in NonNull(current, col)}
    IN IF m = 0 /\ n = 0 THEN Rat(0, 1)
       ELSE IF m = 0 \/ n = 0 THEN Rat(1, 1)
       ELSE Rat(SumInt([c \in categories |->
                          Abs(CountOf(reference, col, c) * n
                                - CountOf(current, col, c) * m)], categories),
                m * n)

\* C17: every common column that is not numeric has a categorical_drift
\* entry whose drift_score is the sum over the union of the categories of
\* |reference proportion - current proportion| and whose drift_detected
\* holds exactly when the score is strictly greater than
\* categorical_threshold
C17_CategoricalDriftScore ==
    drift_report.status = "returned" =>
        LET common == Range(reference_df.columns) \cap Range(current_df.columns)
        IN \A col \in common \ NumericCommonColumns :
              /\ col \in DOMAIN drift_report.value.categorical_drift
              /\ LET entry == drift_report.value.categorical_drift[col]
                     distance == ProportionDistance(reference_df, current_df, col)
                     t == categorical_threshold
                 IN /\ entry.drift_score
                          = SqrtOf(Rat(distance.num * distance.num,
                                       distance.den * distance.den))
                    /\ entry.drift_detected
                          <=> \/ t.num < 0
                              \/ t.num * distance.den < distance.num * t.den

\* the reference holds one category and a missing cell, the current
\* dataset that category and another in equal shares: score 1/2 + 1/2 = 1
C17_Witness ==
    /\ drift_report.status = "returned"
    /\ reference_df.columns = <<"gender">>
    /\ current_df.columns = <<"gender">>
    /\ \E i \in 1..NRows(reference_df) : IsNull(reference_df.rows[i]["gender"])
    /\ ProportionDistance(reference_df, current_df, "gender") = Rat(1, 1)
    /\ Cardinality(NonNull(reference_df, "gender")) = 1
    /\ Cardinality(NonNull(current_df, "gender")) = 2
    /\ drift_report.value.categorical_drift["gender"].drift_score
           = SqrtOf(Rat(1, 1))

---------------------------------------------------------------------------
(* One DataValidator on which the four methods are called in any order *)

\* the layouts of the dataset of the one-dataset methods
SharedLayouts ==
    {OneColumn("age", "int64", {<<10>>, <<25>>}),
     OneColumn("transaction_amount", "float64", {<<>>, <<10>>})}

InitValidator ==
    /\ ValidatorFresh
    /\ ProjectIdle
    /\ PipelineIdle
    /\ \/ \E l \in SharedLayouts : df \in FramesOf(l, MaxSharedRows)
       \/ df = sample_data
    /\ expected_schema \in {test_schema, [c \in {"age"} |-> "int"]}
    /\ reference_df \in FramesOf(OneColumn("income", "float64", {<<1>>, <<3>>}),
                                  MaxSharedRows)
    \* the current dataset holds numbers too, or one row with a string
    /\ current_df \in
          FramesOf(OneColumn("income", "float64", {<<2>>}), MaxSharedRows)
              \cup {[columns |-> <<"income">>,
                      dtypes |-> [c \in {"income"} |-> "object"],
                      rows |-> <<[c \in {"income"} |-> <<1>>]>>]}
    /\ numerical_threshold = Rat(1, 10)
    /\ categorical_threshold = Rat(1, 10)
    /\ schema_result = NotCalled
    /\ drift_report = NotCalled
    /\ QualityIdle
    /\ RulesIdle

\* any method may be called next, any number of times
NextValidator ==
    \/ ValidateDataSchema
    \/ CheckDataQuality
    \/ ValidateBusinessRules
    \/ DetectDataDrift

SpecValidator == InitValidator /\ [][NextValidator]_vars

\* C26: validate_data_schema, check_data_quality, validate_business_rules
\* and detect_data_drift leave every dataset passed to them unchanged (same
\* columns, rows, values and types), whether the call returns or raises
C26_InputsUnchanged ==
    [][/\ df' = df
       /\ reference_df' = reference_df
       /\ current_df' = current_df]_vars

\* all four methods were called, detect_data_drift raised, and the dataset
\* of the others still holds its row with a missing cell
C26_Witness ==
    /\ schema_result.status = "returned"
    /\ quality_report.status = "returned"
    /\ rules_result.status = "returned"
    /\ drift_report.status = "raised"
    /\ df.columns = <<"transaction_amount">>
    /\ \E i \in 1..NRows(df) : df.rows[i]["transaction_amount"] = <<>>

MaxCalls == 2

\* the keys validate_all assigns
CheckKeys ==
    {"aws_access", "s3_resources", "glue_resources", "iam_permissions",
     "data_integrity", "data_schemas", "data_quality", "project_structure",
     "dependencies", "storage_costs", "performance_metrics"}

\* the checks whose except clause stores results['error'] = str(e);
\* _validate_aws_access and _validate_project_structure have none
ErrorProneChecks == CheckKeys \ {"aws_access", "project_structure"}

\* the dict one check returns: aws_access carries overall_status,
\* project_structure carries structure_valid, the others carry the key
\* 'error' exactly when their try block raised
CheckResult(key, failing, aws_ok, structure_ok) ==
    IF key = "aws_access" THEN [overall_status |-> aws_ok]
    ELSE IF key = "project_structure" THEN [structure_valid |-> structure_ok]
    ELSE IF key \in failing THEN [error |-> "exception message"]
    ELSE [checked |-> TRUE]

\* result.get('error') is truthy
HasError(result) == "error" \in DOMAIN result

\* the dict after the eleven assignments of validate_all: keys that were
\* there before (the 'summary' of an earlier call) stay
AssignChecks(results, failing, aws_ok, structure_ok) ==
    [key \in DOMAIN results \cup CheckKeys |->
        IF key \in CheckKeys
        THEN CheckResult(key, failing, aws_ok, structure_ok)
        ELSE results[key]]

calculate_overall_status(results) ==
    IF results["aws_access"].overall_status
       /\ results["project_structure"].structure_valid
    THEN "PASSED" ELSE "FAILED"

\* len(self.validation_results) - 1
count_total_checks(results) == Cardinality(DOMAIN results) - 1

count_passed_checks(results) ==
    Cardinality({key \in DOMAIN results \ {"summary"} :
                    ~HasError(results[key])})

count_failed_checks(results) ==
    count_total_checks(results) - count_passed_checks(results)

\* the dict after _generate_validation_report: the summary is computed
\* from the dict as it is before the key 'summary' is assigned
generate_validation_report(results) ==
    LET summary == [overall_status |-> calculate_overall_status(results),
                    total_checks   |-> count_total_checks(results),
                    passed_checks  |-> count_passed_checks(results),
                    failed_checks  |-> count_failed_checks(results)]
    IN  [key \in DOMAIN results \cup {"summary"} |->
            IF key = "summary" THEN summary ELSE results[key]]

InitProject ==
    /\ ValidatorFresh
    /\ df = NoFrame
    /\ SchemaIdle
    /\ QualityIdle
    /\ RulesIdle
    /\ DriftIdle
    /\ PipelineIdle
    /\ project_validation_results = <<>>
    /\ validate_all_calls = 0

ValidateAll ==
    /\ validate_all_calls < MaxCalls
    /\ \E failing \in SUBSET ErrorProneChecks, aws_ok, structure_ok \in BOOLEAN :
          project_validation_results' =
              generate_validation_report(
                  AssignChecks(project_validation_results, failing,
                               aws_ok, structure_ok))
    /\ validate_all_calls' = validate_all_calls + 1
    /\ UNCHANGED <<validatorVars, df, schemaVars, qualityVars, rulesVars,
                   driftVars, pipelineVars>>

SpecProject == InitProject /\ [][ValidateAll]_vars

\* the summary counts the checks of the dict and those without an error
SummaryCountsChecks(results) ==
    LET summary == results["summary"]
    IN  /\ summary.total_checks = Cardinality(DOMAIN results \ {"summary"})
        /\ summary.total_checks = 11
        /\ summary.passed_checks =
              Cardinality({key \in DOMAIN results \ {"summary"} :
                              ~HasError(results[key])})
        /\ summary.failed_checks = summary.total_checks - summary.passed_checks
        /\ 0 <= summary.failed_checks
        /\ summary.passed_checks <= summary.total_checks

\* C29: after validate_all, on the first call and on any later call, the
\* summary has total_checks = 11 = the number of check results other than
\* the summary, passed_checks = the number of them without an error,
\* failed_checks = total_checks - passed_checks, 0 <= failed_checks and
\* passed_checks <= total_checks
C29_SummaryCounts ==
    validate_all_calls >= 1 => SummaryCountsChecks(project_validation_results)

\* the part of C29 that holds: from the second call on the same validator
\* the summary counts the eleven checks
C29_SummaryCountsOnLaterCalls ==
    validate_all_calls >= 2 => SummaryCountsChecks(project_validation_results)

\* the first call counts ten checks, whatever the checks returned
C29_FirstCallCountsTen ==
    validate_all_calls = 1 =>
        /\ project_validation_results["summary"].total_checks = 10
        /\ project_validation_results["summary"].failed_checks
              = 10 - Cardinality({key \in CheckKeys :
                    ~HasError(project_validation_results[key])})

(***************************************************************************)
(* EcommerceMLPipeline.run_data_preparation (main.py)                      *)
(***************************************************************************)

\* the largest number of rows of an ingested dataset
MaxPipelineRows == 2

\* the steps in the order of the calls in the try block
StepOrder == <<"verify", "ingest", "validate", "transform", "save">>

required_files ==
    {"raw-data/customers/customers.csv",
     "raw-data/products/products.csv",
     "raw-data/transactions/transactions.csv"}

\* the datasets the three ingest_from_s3 calls may return
IngestedData ==
    [customer : FramesOf(OneColumn("age", "int64", {<<25>>}), MaxPipelineRows),
     product : FramesOf(OneColumn("price", "float64", {<<>>, <<10>>}),
                        MaxPipelineRows),
     transaction : FramesOf(OneColumn("transaction_amount", "float64", {<<10>>}),
                            MaxPipelineRows)]

\* _verify_data_availability: every missing key is collected when
\* head_object raises NoSuchKey, and FileNotFoundError is raised if any is
\* missing; another exception of head_object leaves the method at once
verify_data_availability(objects, head_error) ==
    LET missing_files == required_files \ objects
    IN  IF missing_files = {} THEN Returned("None")
        ELSE IF head_error = "NoSuchKey" THEN Raised("FileNotFoundError")
        ELSE Raised(head_error)

\* _validate_data: the three quality checks in the order customer, product,
\* transaction; the first that raises ends the method, otherwise the three
\* reports are stored
QualityChecks == <<"customer", "product", "transaction">>

\* the outcome of the method given the outcome of each quality check
ValidationOutcome(quality) ==
    IF \E i \in 1..Len(QualityChecks) : quality[QualityChecks[i]].status = "raised"
    THEN quality[QualityChecks[
             CHOOSE i \in 1..Len(QualityChecks) :
                /\ quality[QualityChecks[i]].status = "raised"
                /\ \A j \in 1..(i - 1) :
                      quality[QualityChecks[j]].status # "raised"]]
    ELSE Returned([name \in DOMAIN quality |-> quality[name].value])

validate_data(data) ==
    ValidationOutcome([name \in {"customer", "product", "transaction"} |->
                          check_data_quality(data[name])])

PositionOf(step) == CHOOSE i \in 1..Len(StepOrder) : StepOrder[i] = step

\* where the run goes after a step, whatever the step did
AfterStep_ContinuesOnError(step, outcome) ==
    IF PositionOf(step) = Len(StepOrder) THEN "returned"
    ELSE StepOrder[PositionOf(step) + 1]

\* where the run goes after a step: to the except clause and out of the
\* method when the step raised, to the next statement of the try block
\* when it returned
AfterStep(step, outcome) ==
    IF outcome.status = "raised" THEN "raised"
    ELSE IF PositionOf(step) = Len(StepOrder) THEN "returned"
    ELSE StepOrder[PositionOf(step) + 1]

\* how run_data_preparation ends after a step: the except clause raises
\* the exception of the step again; after the last step the method returns
OutcomeAfterStep(step, outcome) ==
    IF outcome.status = "raised" THEN outcome
    ELSE IF PositionOf(step) = Len(StepOrder) THEN Returned("None")
    ELSE NotCalled

\* one statement of the try block
RunStep(step, outcome) ==
    /\ pipeline_pc = step
    /\ pipeline_steps' = Append(pipeline_steps, step)
    /\ pipeline_pc' = AfterStep(step, outcome)
    /\ pipeline_outcome' = OutcomeAfterStep(step, outcome)

\* run_data_preparation is entered, with any of the raw files in the bucket
InitPipeline ==
    /\ ValidatorFresh
    /\ df = NoFrame
    /\ SchemaIdle
    /\ QualityIdle
    /\ RulesIdle
    /\ DriftIdle
    /\ ProjectIdle
    /\ s3_objects \in SUBSET required_files
    /\ pipeline_pc = StepOrder[1]
    /\ pipeline_steps = <<>>
    /\ pipeline_data = <<>>
    /\ pipeline_validation_results = <<>>
    /\ pipeline_outcome = NotCalled

VerifyDataAvailability ==
    \* head_object raises for a key that is not in the bucket the NoSuchKey
    \* the loop catches, or a ClientError it does not catch
    /\ \E head_error \in {"NoSuchKey", "ClientError"} :
          RunStep("verify", verify_data_availability(s3_objects, head_error))
    /\ UNCHANGED <<s3_objects, pipeline_data, pipeline_validation_results,
                   validatorVars, df, schemaVars, qualityVars, rulesVars,
                   driftVars, projectVars>>

IngestData ==
    /\ \/ /\ pipeline_data' \in IngestedData
          /\ RunStep("ingest", Returned("None"))
       \/ /\ RunStep("ingest", Raised("Exception"))
          /\ UNCHANGED pipeline_data
    /\ UNCHANGED <<s3_objects, pipeline_validation_results,
                   validatorVars, df, schemaVars, qualityVars, rulesVars,
                   driftVars, projectVars>>

ValidateData ==
    /\ pipeline_pc = "validate"
    /\ \E outcome \in {validate_data(pipeline_data)} :
          /\ RunStep("validate", outcome)
          /\ pipeline_validation_results' =
                IF outcome.status = "raised"
                THEN pipeline_validation_results
                ELSE outcome.value
    /\ UNCHANGED <<s3_objects, pipeline_data, validatorVars, df, schemaVars,
                   qualityVars, rulesVars, driftVars, projectVars>>

TransformData ==
    /\ \E outcome \in {Returned("None"), Raised("Exception")} :
          RunStep("transform", outcome)
    /\ UNCHANGED <<s3_objects, pipeline_data, pipeline_validation_results,
                   validatorVars, df, schemaVars, qualityVars, rulesVars,
                   driftVars, projectVars>>

SaveProcessedData ==
    /\ \E outcome \in {Returned("None"), Raised("Exception")} :
          RunStep("save", outcome)
    /\ UNCHANGED <<s3_objects, pipeline_data, pipeline_validation_results,
                   validatorVars, df, schemaVars, qualityVars, rulesVars,
                   driftVars, projectVars>>

NextPipeline ==
    \/ VerifyDataAvailability
    \/ IngestData
    \/ ValidateData
    \/ TransformData
    \/ SaveProcessedData

SpecPipeline == InitPipeline /\ [][NextPipeline]_vars

\* the quality check of the three datasets completed and was stored
QualityChecked ==
    /\ DOMAIN pipeline_validation_results = {"customer", "product", "transaction"}
    /\ \A name \in DOMAIN pipeline_validation_results :
          pipeline_validation_results[name]
              = check_data_quality(pipeline_data[name]).value

\* C30: run_data_preparation runs verify, ingest, validate, transform, save
\* strictly in this order; a step starts only after the previous one
\* returned without an exception; when a step raises no later step runs and
\* the exception is raised again to the caller; data is transformed or saved
\* only after the quality check of all three datasets completed
C30_StepsInOrder ==
    /\ [](/\ Len(pipeline_steps) <= Len(StepOrder)
          /\ \A i \in 1..Len(pipeline_steps) : pipeline_steps[i] = StepOrder[i]
          /\ Len(pipeline_steps) >= PositionOf("transform") => QualityChecked
          /\ pipeline_outcome.status = "returned" => pipeline_steps = StepOrder
          /\ pipeline_steps # <<>> /\ s3_objects # required_files
                => /\ pipeline_steps = <<"verify">>
                   /\ pipeline_outcome.status = "raised"
                   /\ pipeline_outcome.error \in {"FileNotFoundError", "ClientError"}
          /\ (/\ Len(pipeline_steps) >= PositionOf("validate")
              /\ \E name \in {"customer", "product", "transaction"} :
                    check_data_quality(pipeline_data[name]).status = "raised")
                => /\ pipeline_steps = <<"verify", "ingest", "validate">>
                   /\ pipeline_outcome.status = "raised"
                   /\ \E failed \in {"customer", "product", "transaction"} :
                         pipeline_outcome = check_data_quality(pipeline_data[failed]))
    /\ [][/\ pipeline_steps' # pipeline_steps
                => /\ pipeline_outcome = NotCalled
                   /\ Len(pipeline_steps) < Len(StepOrder)
                   /\ pipeline_steps'
                         = Append(pipeline_steps, StepOrder[Len(pipeline_steps) + 1])
          /\ pipeline_outcome.status = "raised"
                => /\ pipeline_steps' = pipeline_steps
                   /\ pipeline_outcome' = pipeline_outcome
                   /\ pipeline_validation_results' = pipeline_validation_results]_vars

\* the quality check of the product data raised after the customer data
\* was checked: the run ended with that exception, nothing was stored and
\* neither transform nor save was started
C30_Witness ==
    /\ pipeline_steps = <<"verify", "ingest", "validate">>
    /\ NRows(pipeline_data.customer) > 0
    /\ NRows(pipeline_data.product) = 0
    /\ pipeline_outcome = Raised("ZeroDivisionError")
    /\ pipeline_validation_results = <<>>
    /\ pipeline_pc = "raised"

\* a run in which every step returned
C30_WitnessCompleted ==
    /\ pipeline_steps = StepOrder
    /\ pipeline_outcome = Returned("None")
    /\ QualityChecked

=============================================================================
